---------------------------- MODULE Spec2Model ----------------------------
(***************************************************************************)
(* Model of the financial dashboard App (src/App.tsx): the view state of   *)
(* the App component, the mount effect that computes the metrics and the   *)
(* period table, the tab / sidebar handlers and the asynchronous narrative *)
(* request issued by triggerAiAnalysis.                                    *)
(*                                                                         *)
(* Numbers.  The program computes with IEEE doubles; the model computes    *)
(* with exact rationals.  A number is a record [w, n, d] that stands for   *)
(* w + n/d with 0 <= n < d (w is the floor).  Present values of a schedule *)
(* of N periods at rate p/q share the denominator (p+q)^N, future values   *)
(* the denominator q^N, so that every value stays inside TLC's integers.   *)
(***************************************************************************)
EXTENDS Integers, Sequences, FiniteSets, TLC

VARIABLES
  initialInvestment,  \* useState<number>(-200000)
  discountRate,       \* useState<number>(0.12), as the fraction [p, q]
  cashFlows,          \* useState<number[]>([...])
  metrics,            \* ProjectMetrics | null
  tableData,          \* YearlyData[]
  activeTab,          \* 'dashboard' | 'table' | 'ai'
  aiAnalysis,         \* string
  aiStatus,           \* AnalysisStatus
  isSidebarOpen,      \* boolean
  effectPending,      \* the mount effect is scheduled and has not run yet
  requests,           \* the calls of analyzeProjectFinancials made so far
  lastEvent           \* the handler or callback that ran last

vars == <<initialInvestment, discountRate, cashFlows, metrics, tableData,
          activeTab, aiAnalysis, aiStatus, isSidebarOpen, effectPending,
          requests, lastEvent>>

-----------------------------------------------------------------------------
(* Bounds of the model *)

MaxLen == 3
MaxRequests == 3

-----------------------------------------------------------------------------
(* Exact arithmetic *)

RECURSIVE Pow(_, _)
Pow(x, k) == IF k = 0 THEN 1 ELSE x * Pow(x, k - 1)

Q(w, n, d) == [w |-> w, n |-> n, d |-> d]

FromInt(x, d) == Q(x, 0, d)

QAdd(x, y) ==
  LET s == x.n + y.n
  IN  Q(x.w + y.w + (s \div x.d), s % x.d, x.d)

\* x * k for an integer k >= 0
QMul(x, k) ==
  LET m == x.n * k
  IN  Q(x.w * k + (m \div x.d), m % x.d, x.d)

\* x / k for an integer k > 0; exact when the quotient is a multiple of 1/d
QDiv(x, k) ==
  LET r == x.w % k
  IN  Q(x.w \div k, (r * x.d + x.n) \div k, x.d)

QSign(x) == IF x.w < 0 THEN -1 ELSE IF x.w = 0 /\ x.n = 0 THEN 0 ELSE 1

\* 1 + rate as the fraction OnePlusNum / OnePlusDen
OnePlusNum(rate) == rate.p + rate.q
OnePlusDen(rate) == rate.q

\* x / (1 + rate)^t
RECURSIVE DiscountBy(_, _, _)
DiscountBy(x, rate, t) ==
  IF t = 0 THEN x
  ELSE DiscountBy(QDiv(QMul(x, OnePlusDen(rate)), OnePlusNum(rate)), rate, t - 1)

\* x * (1 + rate)^t
RECURSIVE CompoundBy(_, _, _)
CompoundBy(x, rate, t) ==
  IF t = 0 THEN x
  ELSE CompoundBy(QDiv(QMul(x, OnePlusNum(rate)), OnePlusDen(rate)), rate, t - 1)

PvDen(rate, N) == Pow(OnePlusNum(rate), N)
FvDen(rate, N) == Pow(OnePlusDen(rate), N)


-----------------------------------------------------------------------------
(* utils/financial: the three engine functions *)

\* initialInvestment + SUM_{t=1..N} cashFlows[t-1] / (1+discountRate)^t
RECURSIVE NpvFold(_, _, _, _)
NpvFold(acc, flows, rate, t) ==
  IF t > Len(flows) THEN acc
  ELSE NpvFold(QAdd(acc, DiscountBy(FromInt(flows[t], acc.d), rate, t)),
               flows, rate, t + 1)

calculateNPV(investment, flows, rate) ==
  NpvFold(FromInt(investment, PvDen(rate, Len(flows))), flows, rate, 1)

\* The rates the root search visits, in search order, from -50% to 200%.
IrrGrid ==
  << [p |-> -1, q |-> 2], [p |-> 0, q |-> 1], [p |-> 1, q |-> 10],
     [p |-> 1, q |-> 5],  [p |-> 1, q |-> 2], [p |-> 1, q |-> 1],
     [p |-> 2, q |-> 1] >>

NpvSignAt(investment, flows, i) ==
  QSign(calculateNPV(investment, flows, IrrGrid[i]))

\* A bracket starts at grid point i when the NPV is zero there or changes
\* sign between i and i+1.
IrrBracketAt(investment, flows, i) ==
  \/ NpvSignAt(investment, flows, i) = 0
  \/ /\ i < Len(IrrGrid)
     /\ NpvSignAt(investment, flows, i) * NpvSignAt(investment, flows, i + 1) < 0

NoSolution == [kind |-> "undetermined"]

\* The rate that zeroes the NPV, located to the width of one grid step (the
\* first root in search order), or NoSolution when no bracket has a sign
\* change.
calculateIRR(investment, flows) ==
  LET found == {i \in 1..Len(IrrGrid) : IrrBracketAt(investment, flows, i)}
  IN  IF found = {} THEN NoSolution
      ELSE LET i == CHOOSE j \in found : \A k \in found : j <= k
           IN  [kind |-> "rate", lo |-> IrrGrid[i],
                hi |-> IF NpvSignAt(investment, flows, i) = 0
                       THEN IrrGrid[i] ELSE IrrGrid[i + 1]]

\* One record for period 0, then one per period t = 1..N.
generateTableData(investment, flows, rate) ==
  LET N == Len(flows)
      amount(t) == IF t = 0 THEN investment ELSE flows[t]
  IN  [i \in 1..(N + 1) |->
        [year     |-> i - 1,
         cashFlow |-> amount(i - 1),
         pv       |-> DiscountBy(FromInt(amount(i - 1), PvDen(rate, N)), rate, i - 1),
         fv       |-> CompoundBy(FromInt(amount(i - 1), FvDen(rate, N)), rate,
                                 N - (i - 1))]]

-----------------------------------------------------------------------------
(* App: the mount effect *)

NULL == [kind |-> "null"]

\* tData.reduce((acc, curr) => acc + (curr.year > 0 ? curr.pv : 0), 0)
RECURSIVE ReducePv(_, _, _)
ReducePv(acc, tData, i) ==
  IF i > Len(tData) THEN acc
  ELSE ReducePv(IF tData[i].year > 0 THEN QAdd(acc, tData[i].pv) ELSE acc,
                tData, i + 1)

\* tData.reduce((acc, curr) => acc + (curr.year > 0 ? curr.fv : 0), 0)
RECURSIVE ReduceFv(_, _, _)
ReduceFv(acc, tData, i) ==
  IF i > Len(tData) THEN acc
  ELSE ReduceFv(IF tData[i].year > 0 THEN QAdd(acc, tData[i].fv) ELSE acc,
                tData, i + 1)

\* the reduce without its year > 0 test
RECURSIVE ReducePvAll(_, _, _)
ReducePvAll(acc, tData, i) ==
  IF i > Len(tData) THEN acc
  ELSE ReducePvAll(QAdd(acc, tData[i].pv), tData, i + 1)

TotalPv_AllRows(tData) == ReducePvAll(FromInt(0, tData[1].pv.d), tData, 1)

TotalPv(tData) == ReducePv(FromInt(0, tData[1].pv.d), tData, 1)

TotalFv(tData) == ReduceFv(FromInt(0, tData[1].fv.d), tData, 1)

\* the table without its period-0 record, as the PV/FV chart filters it
EffectTable_DropsPeriod0(investment, flows, rate) ==
  SelectSeq(generateTableData(investment, flows, rate), LAMBDA d : d.year > 0)

\* the table handed to setTableData
EffectTable(investment, flows, rate) ==
  generateTableData(investment, flows, rate)

\* the effect passing the rate as a percentage (12) instead of a fraction
EffectMetrics_RateAsPercent(investment, flows, rate) ==
  LET tData == generateTableData(investment, flows, rate)
  IN  [npv               |-> calculateNPV(investment, flows,
                                          [p |-> (100 * rate.p) \div rate.q, q |-> 1]),
       irr               |-> calculateIRR(investment, flows),
       totalPv           |-> TotalPv(tData),
       totalFv           |-> TotalFv(tData),
       initialInvestment |-> investment,
       discountRate      |-> rate]

\* the effect storing the total of the discounted inflows as npv
EffectMetrics_NpvFromTotalPv(investment, flows, rate) ==
  LET tData == generateTableData(investment, flows, rate)
  IN  [npv               |-> TotalPv(tData),
       irr               |-> calculateIRR(investment, flows),
       totalPv           |-> TotalPv(tData),
       totalFv           |-> TotalFv(tData),
       initialInvestment |-> investment,
       discountRate      |-> rate]

\* the effect storing a default rate of 0 when the IRR is undetermined
EffectMetrics_IrrDefaultsToZero(investment, flows, rate) ==
  LET irr   == calculateIRR(investment, flows)
      tData == generateTableData(investment, flows, rate)
  IN  [npv               |-> calculateNPV(investment, flows, rate),
       irr               |-> IF irr = NoSolution
                             THEN [kind |-> "rate", lo |-> [p |-> 0, q |-> 1],
                                   hi |-> [p |-> 0, q |-> 1]]
                             ELSE irr,
       totalPv           |-> TotalPv(tData),
       totalFv           |-> TotalFv(tData),
       initialInvestment |-> investment,
       discountRate      |-> rate]

\* the record handed to setMetrics
EffectMetrics(investment, flows, rate) ==
  LET npv   == calculateNPV(investment, flows, rate)
      irr   == calculateIRR(investment, flows)
      tData == generateTableData(investment, flows, rate)
  IN  [npv               |-> npv,
       irr               |-> irr,
       totalPv           |-> TotalPv(tData),
       totalFv           |-> TotalFv(tData),
       initialInvestment |-> investment,
       discountRate      |-> rate]

\* Intl.NumberFormat('en-US', {style: 'currency', currency: 'USD',
\* maximumFractionDigits: 0}): the sign and the whole units, halves rounded
\* away from zero; a negative value that rounds to zero keeps its sign.
formatCurrency(val) ==
  IF val.w >= 0
  THEN [negative |-> FALSE,
        units    |-> val.w + (IF 2 * val.n >= val.d THEN 1 ELSE 0)]
  ELSE [negative |-> TRUE,
        units    |-> IF val.n = 0 THEN -val.w
                     ELSE (-val.w - 1) + (IF 2 * (val.d - val.n) >= val.d THEN 1 ELSE 0)]

\* the number a formatted string denotes
Shown(str) == IF str.negative THEN -str.units ELSE str.units

-----------------------------------------------------------------------------
(* App: state after construction *)

FixedInitialInvestment == -200000
FixedDiscountRate == [p |-> 3, q |-> 25]
FixedCashFlows == <<50000, 60000, 70000, 80000, 90000>>

Tabs == {"dashboard", "table", "ai"}
Statuses == {"IDLE", "LOADING", "SUCCESS", "ERROR"}

\* the texts the narrative service may answer with
Texts == {"narrative A", "narrative B"}

ViewInit ==
  /\ metrics = NULL
  /\ tableData = <<>>
  /\ activeTab = "dashboard"
  /\ aiAnalysis = ""
  /\ aiStatus = "IDLE"
  /\ isSidebarOpen = TRUE
  /\ effectPending = TRUE
  /\ requests = <<>>
  /\ lastEvent = "mount"

Init ==
  /\ initialInvestment = FixedInitialInvestment
  /\ discountRate = FixedDiscountRate
  /\ cashFlows = FixedCashFlows
  /\ ViewInit

-----------------------------------------------------------------------------
(* App: the effect, the handlers and the continuation of the request *)

inputs == <<initialInvestment, discountRate, cashFlows>>
computed == <<metrics, tableData>>
ui == <<activeTab, isSidebarOpen>>
ai == <<aiAnalysis, aiStatus, requests>>

\* useEffect(..., [initialInvestment, discountRate, cashFlows]): the deps
\* never change, so the effect runs once, after the first render.
MountEffect ==
  /\ effectPending
  /\ metrics' = EffectMetrics(initialInvestment, cashFlows, discountRate)
  /\ tableData' = EffectTable(initialInvestment, cashFlows, discountRate)
  /\ effectPending' = FALSE
  /\ lastEvent' = "effect"
  /\ UNCHANGED <<inputs, ui, ai>>

\* a tab selection that also resets the narrative state
SetActiveTab_ResetsAi(tab) ==
  /\ activeTab' = tab
  /\ aiStatus' = "IDLE"
  /\ aiAnalysis' = ""
  /\ lastEvent' = "setActiveTab"
  /\ UNCHANGED <<inputs, computed, isSidebarOpen, requests, effectPending>>

\* onClick={() => setActiveTab(tab)}
SetActiveTab(tab) ==
  /\ activeTab' = tab
  /\ lastEvent' = "setActiveTab"
  /\ UNCHANGED <<inputs, computed, isSidebarOpen, ai, effectPending>>

\* onClick={() => setIsSidebarOpen(false)}, the close button of the sidebar
CloseSidebar ==
  /\ isSidebarOpen' = FALSE
  /\ lastEvent' = "closeSidebar"
  /\ UNCHANGED <<inputs, computed, activeTab, ai, effectPending>>

\* onClick={() => setIsSidebarOpen(true)}, rendered only while it is closed
OpenSidebar ==
  /\ ~isSidebarOpen
  /\ isSidebarOpen' = TRUE
  /\ lastEvent' = "openSidebar"
  /\ UNCHANGED <<inputs, computed, activeTab, ai, effectPending>>

\* the analyse button is part of the ai view
ButtonRendered == activeTab = "ai"

\* a button that is never disabled
ButtonDisabled_Never == FALSE

\* disabled={aiStatus === AnalysisStatus.LOADING}
ButtonDisabled == aiStatus = "LOADING"

\* an answer panel rendered whenever a text is held
AnswerPanelShown_WheneverText == activeTab = "ai" /\ aiAnalysis # ""

\* {activeTab === 'ai' && ( ... {aiStatus === AnalysisStatus.SUCCESS && (
\* <Markdown>{aiAnalysis}</Markdown> )} )}
AnswerPanelShown == activeTab = "ai" /\ aiStatus = "SUCCESS"

\* {activeTab === 'ai' && ( ... {aiStatus === AnalysisStatus.ERROR && ( ... )} )}
FailurePanelShown == activeTab = "ai" /\ aiStatus = "ERROR"

Pending(i) == requests[i].state = "pending"

InFlight == {i \in 1..Len(requests) : Pending(i)}

\* a trigger that also clears the table while the request is pending
TriggerAiAnalysis_ClearsTable ==
  /\ activeTab = "ai"
  /\ aiStatus # "LOADING"
  /\ Len(requests) < MaxRequests
  /\ metrics # NULL
  /\ lastEvent' = "trigger"
  /\ aiStatus' = "LOADING"
  /\ requests' = Append(requests,
                        [state |-> "pending", metrics |-> metrics,
                         tableData |-> tableData, text |-> ""])
  /\ tableData' = <<>>
  /\ UNCHANGED <<inputs, metrics, aiAnalysis, ui, effectPending>>

\* a trigger without the `if (!metrics) return` guard
TriggerAiAnalysis_NoNullGuard ==
  /\ activeTab = "ai"
  /\ aiStatus # "LOADING"
  /\ Len(requests) < MaxRequests
  /\ lastEvent' = "trigger"
  /\ aiStatus' = "LOADING"
  /\ requests' = Append(requests,
                        [state |-> "pending", metrics |-> metrics,
                         tableData |-> tableData, text |-> ""])
  /\ UNCHANGED <<inputs, computed, aiAnalysis, ui, effectPending>>

\* triggerAiAnalysis up to its await: the click on the analyse button
TriggerAiAnalysis ==
  /\ ButtonRendered
  /\ ~ButtonDisabled
  /\ Len(requests) < MaxRequests
  /\ lastEvent' = "trigger"
  /\ IF metrics = NULL
     THEN UNCHANGED ai
     ELSE /\ aiStatus' = "LOADING"
          /\ requests' = Append(requests,
                                [state |-> "pending", metrics |-> metrics,
                                 tableData |-> tableData, text |-> ""])
          /\ UNCHANGED aiAnalysis
  /\ UNCHANGED <<inputs, computed, ui, effectPending>>

\* the awaited promise resolves: setAiAnalysis(result); setAiStatus(SUCCESS)
ServiceResolves(i, result) ==
  /\ i \in InFlight
  /\ requests' = [requests EXCEPT ![i].state = "resolved", ![i].text = result]
  /\ aiAnalysis' = result
  /\ aiStatus' = "SUCCESS"
  /\ lastEvent' = "resolve"
  /\ UNCHANGED <<inputs, computed, ui, effectPending>>

\* the awaited promise rejects: the await throws inside triggerAiAnalysis,
\* which has no try/catch, so the rest of the function is skipped
ServiceRejects(i) ==
  /\ i \in InFlight
  /\ requests' = [requests EXCEPT ![i].state = "rejected"]
  /\ lastEvent' = "reject"
  /\ UNCHANGED <<inputs, computed, ui, aiAnalysis, aiStatus, effectPending>>

Next ==
  \/ MountEffect
  \/ \E tab \in Tabs : SetActiveTab(tab)
  \/ CloseSidebar
  \/ OpenSidebar
  \/ TriggerAiAnalysis
  \/ \E i \in 1..Len(requests) : \E result \in Texts : ServiceResolves(i, result)
  \/ \E i \in 1..Len(requests) : ServiceRejects(i)

Spec == Init /\ [][Next]_vars

-----------------------------------------------------------------------------
(* The engine on arbitrary inputs: the effect applied to every triple of a  *)
(* bounded set of inputs, the deployment's triple among them.              *)

Investments == {-3, -1, 0, 2}
FlowAmounts == {-2, 0, 1, 3}
Rates == {[p |-> 0, q |-> 1], [p |-> 1, q |-> 2], [p |-> 1, q |-> 10],
          [p |-> 3, q |-> 25]}

FlowLists == UNION {[1..n -> FlowAmounts] : n \in 0..MaxLen}

EngineInit ==
  /\ \/ /\ initialInvestment \in Investments
        /\ discountRate \in Rates
        /\ cashFlows \in FlowLists
     \/ /\ initialInvestment = FixedInitialInvestment
        /\ discountRate = FixedDiscountRate
        /\ cashFlows = FixedCashFlows
  /\ ViewInit

EngineNext == MountEffect

EngineSpec == EngineInit /\ [][EngineNext]_vars

-----------------------------------------------------------------------------
(* Properties of the narrative request *)

\* C1: when the awaited analyzeProjectFinancials promise rejects, aiStatus
\* moves directly from LOADING to ERROR (the failure panel is shown).
C1_RejectionMovesToError ==
  [][\A i \in 1..Len(requests) :
       (Pending(i) /\ requests'[i].state = "rejected")
          => (aiStatus = "LOADING" /\ aiStatus' = "ERROR")]_vars

\* C2: at most one narrative request is in flight at any time, and while one
\* is in flight aiStatus is LOADING, which disables the analyse button, so a
\* new request starts only while aiStatus is not LOADING.
C2_AtMostOneInFlight ==
  /\ Cardinality(InFlight) <= 1
  /\ InFlight # {} => aiStatus = "LOADING"

\* a second request is in flight after an earlier one has completed
C2_Witness ==
  /\ Len(requests) >= 2
  /\ Cardinality(InFlight) = 1
  /\ requests[1].state = "resolved"

\* C3: aiStatus is IDLE until the first trigger, and once the service call
\* of the latest request has settled aiStatus is terminal: SUCCESS with the
\* text that request returned when it resolved, ERROR when it rejected; it
\* never remains LOADING after the call has settled.
C3_SettledIsTerminal ==
  /\ requests = <<>> => aiStatus = "IDLE"
  /\ (requests # <<>> /\ InFlight = {}) =>
        LET last == requests[Len(requests)]
        IN  /\ aiStatus # "LOADING"
            /\ last.state = "resolved" =>
                  (aiStatus = "SUCCESS" /\ aiAnalysis = last.text)
            /\ last.state = "rejected" => aiStatus = "ERROR"

-----------------------------------------------------------------------------
(* Properties of the engine and of the mount effect *)

DeploymentInputs ==
  /\ initialInvestment = FixedInitialInvestment
  /\ discountRate = FixedDiscountRate
  /\ cashFlows = FixedCashFlows

\* |x - c| <= 1 for an integer c
Near(x, c) == x.w \in {c - 1, c} \/ (x.w = c + 1 /\ x.n = 0)

\* C4 as stated: for the deployment inputs the NPV is approximately 11,701
\* and is positive.
C4_NpvNear11701 ==
  (DeploymentInputs /\ metrics # NULL) =>
     (QSign(metrics.npv) > 0 /\ Near(metrics.npv, 11701))

\* C4 as amended: for the deployment inputs the NPV is approximately 44,209
\* and is positive.
C4_NpvNear44209 ==
  (DeploymentInputs /\ metrics # NULL) =>
     (QSign(metrics.npv) > 0 /\ Near(metrics.npv, 44209))

C4_Witness == DeploymentInputs /\ metrics # NULL /\ Len(tableData) = 6

RECURSIVE SumPvRows(_, _)
SumPvRows(rows, i) ==
  IF i > Len(rows) THEN FromInt(0, rows[1].pv.d)
  ELSE QAdd(rows[i].pv, SumPvRows(rows, i + 1))

RECURSIVE SumFvRows(_, _)
SumFvRows(rows, i) ==
  IF i > Len(rows) THEN FromInt(0, rows[1].fv.d)
  ELSE QAdd(rows[i].fv, SumFvRows(rows, i + 1))

\* line 358: the PV cell of row i, and their sum as numbers
PvCell(i) == formatCurrency(tableData[i].pv)

RECURSIVE SumShownPvCells(_)
SumShownPvCells(i) ==
  IF i > Len(tableData) THEN 0 ELSE Shown(PvCell(i)) + SumShownPvCells(i + 1)

\* line 365: the PV cell of the total row
TotalRowPv == formatCurrency(metrics.npv)

Abs(x) == IF x < 0 THEN -x ELSE x

NpvIsSumOfPv ==
  /\ metrics.npv = QAdd(FromInt(initialInvestment, metrics.npv.d),
                        SumPvRows(tableData, 2))
  /\ metrics.npv = SumPvRows(tableData, 1)
  /\ tableData[1].pv = FromInt(initialInvestment, metrics.npv.d)

AllFlows == <<initialInvestment>> \o cashFlows

\* no two flows of opposite sign, and not all of them zero
NoSignChange ==
  /\ \E i \in 1..Len(AllFlows) : AllFlows[i] # 0
  /\ \/ \A i \in 1..Len(AllFlows) : AllFlows[i] >= 0
     \/ \A i \in 1..Len(AllFlows) : AllFlows[i] <= 0

RECURSIVE SumSeq(_, _)
SumSeq(seq, i) == IF i > Len(seq) THEN 0 ELSE seq[i] + SumSeq(seq, i + 1)

RECURSIVE SumCashFlowRows(_, _)
SumCashFlowRows(rows, i) ==
  IF i > Len(rows) THEN 0 ELSE rows[i].cashFlow + SumCashFlowRows(rows, i + 1)

\* C7: the table has N+1 records, periods 0..N in order, record 0 carrying
\* initialInvestment and record t carrying cashFlows[t-1]; their cashFlow
\* fields sum to initialInvestment + sum(cashFlows).
C7_TableShape ==
  ~effectPending =>
     /\ Len(tableData) = Len(cashFlows) + 1
     /\ \A i \in 1..Len(tableData) :
           /\ tableData[i].year = i - 1
           /\ tableData[i].cashFlow =
                 (IF i = 1 THEN initialInvestment ELSE cashFlows[i - 1])
     /\ SumCashFlowRows(tableData, 1) = initialInvestment + SumSeq(cashFlows, 1)

C7_Witness ==
  /\ ~effectPending
  /\ Len(cashFlows) >= 2
  /\ Len(tableData) = Len(cashFlows) + 1
  /\ tableData[3].cashFlow = cashFlows[2]

-----------------------------------------------------------------------------
(* Frame properties of the view state *)

\* C8: the inputs never change, and metrics and tableData change only in
\* the one run of the mount effect, which sets them from the inputs; no
\* handler and no service response changes them.
C8_ComputedOnceThenReadOnly ==
  [][/\ UNCHANGED inputs
     /\ ~effectPending => UNCHANGED computed
     /\ computed' # computed =>
           /\ effectPending /\ ~effectPending'
           /\ metrics' = EffectMetrics(initialInvestment, cashFlows, discountRate)
           /\ tableData' = EffectTable(initialInvestment, cashFlows, discountRate)]_vars

\* every handler has run and a response has arrived after the effect
C8_Witness ==
  /\ ~effectPending
  /\ metrics # NULL
  /\ lastEvent = "resolve"
  /\ activeTab = "table"
  /\ ~isSidebarOpen
  /\ Len(requests) >= 2

\* C10: activeTab is one of the three tabs, initially dashboard, and
\* isSidebarOpen a boolean, initially TRUE; a step that changes one of them
\* changes nothing else of the view (aiStatus, aiAnalysis and the requests
\* in flight included), and a response that arrives is applied to aiStatus
\* and aiAnalysis whatever the tab.
C10_TabAndSidebarFrame ==
  /\ activeTab = "dashboard" /\ isSidebarOpen = TRUE
  /\ [](activeTab \in Tabs /\ isSidebarOpen \in BOOLEAN)
  /\ [][/\ activeTab' # activeTab =>
             UNCHANGED <<inputs, computed, isSidebarOpen, ai, effectPending>>
        /\ isSidebarOpen' # isSidebarOpen =>
             UNCHANGED <<inputs, computed, activeTab, ai, effectPending>>
        /\ \A i \in 1..Len(requests) :
             (Pending(i) /\ requests'[i].state = "resolved") =>
                (aiStatus' = "SUCCESS" /\ aiAnalysis' = requests'[i].text)]_vars

\* a response was applied while the user was away from the ai tab
C10_Witness ==
  /\ lastEvent = "resolve"
  /\ activeTab = "table"
  /\ ~isSidebarOpen
  /\ aiStatus = "SUCCESS"
  /\ aiAnalysis = requests[Len(requests)].text

-----------------------------------------------------------------------------
(* Properties of the guard of triggerAiAnalysis *)

\* C11: no request is issued without computed metrics: while metrics is
\* null no step, a click on the analyse button included, changes aiStatus,
\* aiAnalysis or the requests sent; every request sent was sent with
\* metrics set, and carries the current metrics and tableData.
C11_NoRequestWithoutMetrics ==
  /\ [](\A i \in 1..Len(requests) :
          /\ requests[i].metrics # NULL
          /\ requests[i].metrics = metrics
          /\ requests[i].tableData = tableData)
  /\ [][/\ metrics = NULL => UNCHANGED ai
        /\ Len(requests') > Len(requests) =>
              /\ metrics # NULL
              /\ requests'[Len(requests')].metrics = metrics
              /\ requests'[Len(requests')].tableData = tableData]_vars

\* the button was clicked in the ai tab before the effect had set metrics
C11_Witness ==
  /\ lastEvent = "trigger"
  /\ activeTab = "ai"
  /\ metrics = NULL
  /\ aiStatus = "IDLE"
  /\ aiAnalysis = ""
  /\ requests = <<>>

-----------------------------------------------------------------------------
(* Properties of the narrative panels *)

\* the latest request that resolved, 0 when none has
LatestResolved ==
  LET done == {i \in 1..Len(requests) : requests[i].state = "resolved"}
  IN  IF done = {} THEN 0 ELSE CHOOSE i \in done : \A j \in done : j <= i

\* C12: the answer panel is rendered iff activeTab is ai and aiStatus is
\* SUCCESS, the failure panel iff activeTab is ai and aiStatus is ERROR,
\* never both; while a request is in flight aiStatus is LOADING and neither
\* panel is rendered, so the text of an earlier success is hidden; and when
\* the answer panel is rendered no request is in flight and its text is the
\* text of the latest request that completed.
C12_PanelsConsistent ==
  /\ AnswerPanelShown <=> (activeTab = "ai" /\ aiStatus = "SUCCESS")
  /\ FailurePanelShown <=> (activeTab = "ai" /\ aiStatus = "ERROR")
  /\ ~(AnswerPanelShown /\ FailurePanelShown)
  /\ InFlight # {} =>
        (aiStatus = "LOADING" /\ ~AnswerPanelShown /\ ~FailurePanelShown)
  /\ AnswerPanelShown =>
        /\ InFlight = {}
        /\ LatestResolved = Len(requests)
        /\ LatestResolved > 0
        /\ aiAnalysis = requests[LatestResolved].text

\* the answer of a second request replaced a different earlier answer
C12_Witness ==
  /\ Len(requests) >= 2
  /\ requests[1].state = "resolved"
  /\ requests[2].state = "resolved"
  /\ requests[1].text # requests[2].text
  /\ LatestResolved = 2
  /\ AnswerPanelShown
  /\ aiAnalysis = requests[2].text

\* a new request is in flight after an earlier success: the old text is
\* still held but not rendered
C12_StaleTextHidden ==
  /\ activeTab = "ai"
  /\ Len(requests) = 2
  /\ requests[1].state = "resolved"
  /\ Pending(2)
  /\ aiAnalysis = requests[1].text
  /\ ~AnswerPanelShown

=============================================================================
